---- MODULE Spec2Model ----
(***************************************************************************)
(* TILT risk-scoring engine (backend/risk_calculator.py) and the           *)
(* calculate-assessment endpoint (backend/main.py).                        *)
(*                                                                         *)
(* The scoring functions are pure.  A behaviour of the model is one call:  *)
(* Init draws the operation and its arguments, the operation's action      *)
(* applies it and stores what it returns.                                  *)
(*                                                                         *)
(* Python values are represented as follows.                               *)
(*   None / True / False in string-typed fields : "None", "True", "False"  *)
(*   None as an answer value                    : NoneLevel                *)
(*   a dict                                     : a function on its keys   *)
(*   a list                                     : a sequence               *)
(*   an Optional request field                  : <<>> or <<value>>        *)
(*   a float                                    : [num, den, err], the     *)
(*       rational num/den the expression denotes plus the sign err of the  *)
(*       rounding error the double computation accumulated.  The error is  *)
(*       below 1e-12, so it is visible only to round() at an exact tie and *)
(*       to a comparison with a number the exact value equals.             *)
(***************************************************************************)
EXTENDS Integers, Sequences, FiniteSets, TLC

VARIABLES op, args, fe, pc, result, cache, now, ransom_cache, lookups, net, database

vars == <<op, args, fe, pc, result, cache, now, ransom_cache, lookups, net, database>>

(* the state of the OSINT service: _cache, time.time(), ransom_cache.json,  *)
(* the lookups and statements the last call sent and what the network       *)
(* answered to it; database is the state of backend/database.py: _db,       *)
(* _is_locked, the key file and the tables                                  *)
service == <<cache, now, ransom_cache, lookups, net, database>>

(***************************************************************************)
(* Bounds of the model.                                                    *)
(***************************************************************************)
MaxQuestionId == 2

MaxCriterionId == 2

(***************************************************************************)
(* Python values.                                                          *)
(***************************************************************************)
None == "None"

PyTrue == "True"

PyFalse == "False"

NoneLevel == -1

TriValues == {PyTrue, PyFalse, None}

Levels == 1..5

(* osint_results: None or {} (both falsy) or a dict; a key that is absent    *)
(* reads as None through dict.get.                                          *)
NoOsint == [given |-> FALSE]

SslValues == {"A", "B", "C", "F", "Expired", None}

OsintValues == {NoOsint} \cup [ransomware : TriValues, ssl : SslValues, dmarc : TriValues]

Truthy(osint_results) == osint_results # NoOsint

(***************************************************************************)
(* Arithmetic on floats.                                                   *)
(***************************************************************************)
FloatErrs == {-1, 0, 1}

Exact(n) == [num |-> n, den |-> 1, err |-> 0]

(* a < b for floats a, b *)
FloatLess(a, b) ==
    \/ a.num * b.den < b.num * a.den
    \/ a.num * b.den = b.num * a.den /\ a.err < b.err

(* Python max(a, b): b if b > a, else a *)
PyMax(a, b) == IF FloatLess(a, b) THEN b ELSE a

(* Python min(a, b): b if b < a, else a *)
PyMin(a, b) == IF FloatLess(b, a) THEN b ELSE a

(* Python round(x) for a float x: nearest integer, an exact tie to even *)
PyRound(x) ==
    LET q == x.num \div x.den
        r == x.num - q * x.den
    IN  IF 2 * r < x.den THEN q
        ELSE IF 2 * r > x.den THEN q + 1
        ELSE IF x.err < 0 THEN q
        ELSE IF x.err > 0 THEN q + 1
        ELSE IF q % 2 = 0 THEN q ELSE q + 1

(***************************************************************************)
(* calc_vulnerability                                                      *)
(***************************************************************************)
Answered(answers, q) == q.id \in DOMAIN answers /\ answers[q.id] # NoneLevel

QuestionWeight_HighAsLow(q) ==
    IF q.weight = "Critical" THEN 3 ELSE 1

QuestionWeight(q) ==
    IF q.weight = "Critical" THEN 3 ELSE IF q.weight = "High" THEN 2 ELSE 1

RECURSIVE total_weight(_, _)
total_weight(answers, questions) ==
    IF questions = <<>> THEN 0
    ELSE LET q == Head(questions)
         IN  (IF Answered(answers, q) THEN QuestionWeight(q) ELSE 0)
             + total_weight(answers, Tail(questions))

(* weighted_score in fifths: normalized = (6 - answer_val) / 5 *)
RECURSIVE weighted_score(_, _)
weighted_score(answers, questions) ==
    IF questions = <<>> THEN 0
    ELSE LET q == Head(questions)
         IN  (IF Answered(answers, q)
              THEN (6 - answers[q.id]) * QuestionWeight(q) ELSE 0)
             + weighted_score(answers, Tail(questions))

OsintFloor_Overwrite(vuln, osint_results) ==
    IF ~Truthy(osint_results) THEN vuln
    ELSE LET v1 == IF osint_results.ssl \in {"F", "Expired"} THEN Exact(80) ELSE vuln
         IN  IF osint_results.dmarc = PyFalse THEN PyMax(v1, Exact(60)) ELSE v1

(* the OSINT floors of lines 42-48 (and 80-86), on a float *)
OsintFloor(vuln, osint_results) ==
    IF ~Truthy(osint_results) THEN vuln
    ELSE LET v1 == IF osint_results.ssl \in {"F", "Expired"}
                   THEN PyMax(vuln, Exact(80)) ELSE vuln
         IN  IF osint_results.dmarc = PyFalse THEN PyMax(v1, Exact(60)) ELSE v1

(* The signs the rounding error of vuln (line 38) is drawn from.  The error  *)
(* is far smaller than the distance of any non-tie value to a tie, so it    *)
(* reaches the result only where the exact weighted mean is a tie of        *)
(* round(); elsewhere all signs give one result and one sign is drawn.      *)
VulnErrs(answers, questions) ==
    LET n == 100 * weighted_score(answers, questions)
        d == 5 * total_weight(answers, questions)
    IN  IF d > 0 /\ 2 * (n % d) = d THEN FloatErrs ELSE {0}

calc_vulnerability_NoWeightCheck(answers, questions, osint_results, e) ==
    IF DOMAIN answers = {} THEN 100
    ELSE IF total_weight(answers, questions) = 0 THEN 0
    ELSE LET vuln == [num |-> 100 * weighted_score(answers, questions),
                      den |-> 5 * total_weight(answers, questions),
                      err |-> e]
         IN  PyRound(OsintFloor(vuln, osint_results))

calc_vulnerability(answers, questions, osint_results, e) ==
    IF DOMAIN answers = {} THEN 100
    ELSE IF total_weight(answers, questions) = 0 THEN 100
    ELSE LET vuln == [num |-> 100 * weighted_score(answers, questions),
                      den |-> 5 * total_weight(answers, questions),
                      err |-> e]
         IN  PyRound(OsintFloor(vuln, osint_results))

(***************************************************************************)
(* Arguments.                                                              *)
(***************************************************************************)
WeightValues == {"Critical", "High", "Low", None}

(* question lists as the questions table yields them: ids ascending, unique *)
RECURSIVE QuestionListsFrom(_)
QuestionListsFrom(i) ==
    IF i > MaxQuestionId THEN {<<>>}
    ELSE LET rest == QuestionListsFrom(i + 1)
         IN  rest \cup {<<[id |-> i, weight |-> w]>> \o r : w \in WeightValues, r \in rest}

QuestionLists == QuestionListsFrom(1)

AnswerMaps == UNION {[D -> Levels \cup {NoneLevel}] : D \in SUBSET (1..MaxQuestionId)}

StandardArgs == [answers : AnswerMaps, questions : QuestionLists, osint_results : OsintValues]

(***************************************************************************)
(* calc_impact_likelihood                                                  *)
(***************************************************************************)
(* answer_vals: the ids whose value is not None *)
answer_vals(answers) == {i \in DOMAIN answers : answers[i] # NoneLevel}

RECURSIVE SumAnswers(_, _)
SumAnswers(answers, ids) ==
    IF ids = {} THEN 0
    ELSE LET i == CHOOSE j \in ids : TRUE
         IN  answers[i] + SumAnswers(answers, ids \ {i})

InvertedAverage_NoUpperClamp(answers) ==
    LET n == Cardinality(answer_vals(answers))
        s == SumAnswers(answers, answer_vals(answers))
    IN  PyMax(Exact(1), [num |-> 36 * n - 5 * s, den |-> 6 * n, err |-> 0])

(* 6 - avg_score / 1.2 with avg_score = sum / len, as the fraction          *)
(* (36 * len - 5 * sum) / (6 * len), clamped by max(1, min(5, .))           *)
InvertedAverage(answers) ==
    LET n == Cardinality(answer_vals(answers))
        s == SumAnswers(answers, answer_vals(answers))
    IN  PyMax(Exact(1), PyMin(Exact(5), [num |-> 36 * n - 5 * s, den |-> 6 * n, err |-> 0]))

calc_impact_likelihood_SslRaises(answers, questions, osint_results) ==
    LET base == IF DOMAIN answers # {} /\ answer_vals(answers) # {}
                THEN InvertedAverage(answers) ELSE Exact(3)
    IN  [impact |-> base,
         likelihood |-> IF Truthy(osint_results)
                           /\ (osint_results.ransomware = PyTrue
                               \/ osint_results.ssl \in {"F", "Expired"})
                        THEN Exact(5) ELSE base]

calc_impact_likelihood(answers, questions, osint_results) ==
    LET base == IF DOMAIN answers # {} /\ answer_vals(answers) # {}
                THEN InvertedAverage(answers) ELSE Exact(3)
    IN  [impact |-> base,
         likelihood |-> IF Truthy(osint_results) /\ osint_results.ransomware = PyTrue
                        THEN Exact(5) ELSE base]

(***************************************************************************)
(* calc_cloud_vulnerability                                                *)
(***************************************************************************)
(* scores.get(c['id'], 0) *)
maturity_score(scores, c) == IF c.id \in DOMAIN scores THEN scores[c.id] ELSE 0

(* total_score in fifths: the sum of (maturity_score / 5) * points *)
RECURSIVE total_score(_, _)
total_score(scores, criteria) ==
    IF criteria = <<>> THEN 0
    ELSE maturity_score(scores, Head(criteria)) * Head(criteria).points
         + total_score(scores, Tail(criteria))

max_score == 55

missed_critical_ZeroOnly(scores, criteria) ==
    \E i \in 1..Len(criteria) :
        /\ criteria[i].criticality = "Critical"
        /\ criteria[i].id \in DOMAIN scores
        /\ scores[criteria[i].id] = 0

(* lines 69-73 *)
missed_critical(scores, criteria) ==
    \E i \in 1..Len(criteria) :
        /\ criteria[i].criticality = "Critical"
        /\ (criteria[i].id \notin DOMAIN scores \/ scores[criteria[i].id] = 0)

(* The signs the rounding error of total_score is drawn from.  maturity / 5 *)
(* is a double exactly for maturity 0 and 5 only, so the sum is exact when  *)
(* every maturity is 0 or 5.  Otherwise it may miss the exact sum by a few  *)
(* ulps, which only a comparison with a threshold the exact sum equals can  *)
(* see (round() of total_score and of the vulnerability have no ties: their *)
(* exact values are multiples of 1/5 and of 1/11).                          *)
CloudErrs(scores, criteria) ==
    IF /\ \E i \in 1..Len(criteria) : maturity_score(scores, criteria[i]) \in 1..4
       /\ total_score(scores, criteria) \in {5 * 15, 5 * 30, 5 * 45}
    THEN FloatErrs ELSE {0}

cloud_status_LessOrEqual(total, missed) ==
    IF missed \/ ~FloatLess(Exact(15), total)
    THEN [status |-> "REJECT (Critical Risk)", statusColor |-> "red"]
    ELSE IF ~FloatLess(Exact(30), total)
    THEN [status |-> "Restricted (Deficient)", statusColor |-> "amber"]
    ELSE IF ~FloatLess(Exact(45), total)
    THEN [status |-> "Standard Approval", statusColor |-> "yellow"]
    ELSE [status |-> "Elite (Pre-approved)", statusColor |-> "green"]

(* lines 93-104 *)
cloud_status(total, missed) ==
    IF missed \/ FloatLess(total, Exact(15))
    THEN [status |-> "REJECT (Critical Risk)", statusColor |-> "red"]
    ELSE IF FloatLess(total, Exact(30))
    THEN [status |-> "Restricted (Deficient)", statusColor |-> "amber"]
    ELSE IF FloatLess(total, Exact(45))
    THEN [status |-> "Standard Approval", statusColor |-> "yellow"]
    ELSE [status |-> "Elite (Pre-approved)", statusColor |-> "green"]

RECURSIVE SumPoints(_)
SumPoints(criteria) ==
    IF criteria = <<>> THEN 0 ELSE Head(criteria).points + SumPoints(Tail(criteria))

calc_cloud_vulnerability_DynamicMax(scores, criteria, osint_results, e) ==
    LET total == [num |-> total_score(scores, criteria), den |-> 5, err |-> e]
        missed == missed_critical(scores, criteria)
        max == SumPoints(criteria)
        vuln == IF max > 0
                THEN PyRound([num |-> 100 * (5 * max - total.num),
                              den |-> 5 * max,
                              err |-> 0 - e])
                ELSE 100
        st == cloud_status(total, missed)
    IN  [score |-> PyRound(total),
         maxScore |-> max,
         vulnerability |-> OsintFloor(Exact(vuln), osint_results).num,
         status |-> st.status,
         statusColor |-> st.statusColor,
         missedCritical |-> missed]

calc_cloud_vulnerability(scores, criteria, osint_results, e) ==
    LET total == [num |-> total_score(scores, criteria), den |-> 5, err |-> e]
        missed == missed_critical(scores, criteria)
        vuln == PyRound([num |-> 100 * (5 * max_score - total.num),
                         den |-> 5 * max_score,
                         err |-> 0 - e])
        st == cloud_status(total, missed)
    IN  [score |-> PyRound(total),
         maxScore |-> max_score,
         vulnerability |-> OsintFloor(Exact(vuln), osint_results).num,
         status |-> st.status,
         statusColor |-> st.statusColor,
         missedCritical |-> missed]

PointValues == {15, 37, 45}

CriticalityValues == {"Critical", "High"}

(* criteria lists as the cloud_criteria table yields them: ids ascending, unique *)
RECURSIVE CriteriaListsFrom(_)
CriteriaListsFrom(i) ==
    IF i > MaxCriterionId THEN {<<>>}
    ELSE LET rest == CriteriaListsFrom(i + 1)
         IN  rest \cup {<<[id |-> i, points |-> p, criticality |-> k]>> \o r :
                            p \in PointValues, k \in CriticalityValues, r \in rest}

CriteriaLists == CriteriaListsFrom(1)

ScoreMaps == UNION {[D -> 0..5] : D \in SUBSET (1..MaxCriterionId)}

CloudArgs == [scores : ScoreMaps, criteria : CriteriaLists, osint_results : OsintValues]

(***************************************************************************)
(* calculate_assessment (POST /assessment/calculate)                       *)
(***************************************************************************)
Opt(S) == {<<>>} \cup {<<v>> : v \in S}

(* `x or []` for an Optional list *)
OrEmpty(x) == IF x = <<>> THEN <<>> ELSE x[1]

(* truth value of an Optional dict: None and {} are falsy *)
DictTruthy(x) == x # <<>> /\ DOMAIN x[1] # {}

(* lines 375-376 *)
ScoreTier(score) ==
    IF score < 15 THEN 5 ELSE IF score < 30 THEN 4 ELSE IF score < 45 THEN 3 ELSE 2

BadRequest == [status_code |-> 400, detail |-> "Invalid assessment data"]

(* the errors the scoring call of the request draws from *)
AssessmentErrs(req) ==
    IF req.assessment_type = "standard" /\ DictTruthy(req.answers)
    THEN VulnErrs(req.answers[1], OrEmpty(req.questions))
    ELSE IF req.assessment_type = "cloud" /\ DictTruthy(req.cloudScores)
    THEN CloudErrs(req.cloudScores[1], OrEmpty(req.criteria))
    ELSE {0}

calculate_assessment_RansomwareImpact(req, e) ==
    IF req.assessment_type = "standard" /\ DictTruthy(req.answers)
    THEN LET il == calc_impact_likelihood(req.answers[1], OrEmpty(req.questions),
                                          req.osintResults)
         IN  [status_code |-> 200,
              body |-> [vulnerability |-> calc_vulnerability(req.answers[1],
                                              OrEmpty(req.questions), req.osintResults, e),
                        impact |-> il.impact,
                        likelihood |-> il.likelihood]]
    ELSE IF req.assessment_type = "cloud" /\ DictTruthy(req.cloudScores)
    THEN LET r == calc_cloud_vulnerability(req.cloudScores[1], OrEmpty(req.criteria),
                                           req.osintResults, e)
             ransom == Truthy(req.osintResults) /\ req.osintResults.ransomware = PyTrue
         IN  [status_code |-> 200,
              body |-> [vulnerability |-> r.vulnerability,
                        impact |-> IF ransom THEN 5 ELSE ScoreTier(r.score),
                        likelihood |-> IF ransom THEN 5 ELSE ScoreTier(r.score),
                        score |-> r.score,
                        maxScore |-> r.maxScore,
                        status |-> r.status,
                        statusColor |-> r.statusColor,
                        missedCritical |-> r.missedCritical]]
    ELSE BadRequest

calculate_assessment(req, e) ==
    IF req.assessment_type = "standard" /\ DictTruthy(req.answers)
    THEN LET il == calc_impact_likelihood(req.answers[1], OrEmpty(req.questions),
                                          req.osintResults)
         IN  [status_code |-> 200,
              body |-> [vulnerability |-> calc_vulnerability(req.answers[1],
                                              OrEmpty(req.questions), req.osintResults, e),
                        impact |-> il.impact,
                        likelihood |-> il.likelihood]]
    ELSE IF req.assessment_type = "cloud" /\ DictTruthy(req.cloudScores)
    THEN LET r == calc_cloud_vulnerability(req.cloudScores[1], OrEmpty(req.criteria),
                                           req.osintResults, e)
         IN  [status_code |-> 200,
              body |-> [vulnerability |-> r.vulnerability,
                        impact |-> ScoreTier(r.score),
                        likelihood |-> IF Truthy(req.osintResults)
                                          /\ req.osintResults.ransomware = PyTrue
                                       THEN 5 ELSE ScoreTier(r.score),
                        score |-> r.score,
                        maxScore |-> r.maxScore,
                        status |-> r.status,
                        statusColor |-> r.statusColor,
                        missedCritical |-> r.missedCritical]]
    ELSE BadRequest

(* Dict[int, int]: the request model admits no null answer *)
IntAnswerMaps == UNION {[D -> Levels] : D \in SUBSET (1..MaxQuestionId)}

RequestOsint ==
    {NoOsint} \cup [ransomware : TriValues,
                    ssl : {"A", "F", "Expired", None},
                    dmarc : {PyTrue, PyFalse}]

AssessmentRequests ==
    [assessment_type : {"standard"}, answers : Opt(IntAnswerMaps), cloudScores : {<<>>},
     questions : Opt(QuestionLists), criteria : {<<>>}, osintResults : RequestOsint]
    \cup
    [assessment_type : {"cloud"}, answers : {<<>>}, cloudScores : Opt(ScoreMaps),
     questions : {<<>>}, criteria : Opt(CriteriaLists), osintResults : RequestOsint]
    \cup
    [assessment_type : {"standard", "cloud", "nist"}, answers : Opt(IntAnswerMaps),
     cloudScores : Opt(ScoreMaps), questions : {<<>>}, criteria : {<<>>},
     osintResults : {NoOsint}]

(***************************************************************************)
(* OSINT service (backend/osint_service.py).                               *)
(*                                                                         *)
(* time.time() is counted in ticks of half a second, the length of one     *)
(* RATE_LIMIT_DELAY sleep; a network lookup itself takes no time.          *)
(*   _cache            : a function from cache keys to [val, timestamp]    *)
(*   ransom_cache.json : [exists, mtime, content]; content is <<data>>, or *)
(*                       <<>> when the file does not parse as JSON         *)
(*   a bool of the service : a TLA+ BOOLEAN, turned into "True" / "False"  *)
(*                       where it enters osint_results                     *)
(*   a vendor name     : the sequence of its lower-case words ('' is <<>>) *)
(*   a post title      : the sequence of its lower-case words; `x in title`*)
(*                       is decided at word granularity                    *)
(*   dmarc_subdomains  : the sequence split(',') yields ('' is <<"">>)     *)
(***************************************************************************)
Second == 2

RATE_LIMIT_DELAY == 1

CACHE_TTL_HOURS == 24

ttl_seconds == 300

PyBool(b) == IF b THEN PyTrue ELSE PyFalse

(* str.strip() on the strings of the model *)
Strip(s) ==
    CASE s = " " -> ""
      [] s = " mail.example" -> "mail.example"
      [] OTHER -> s

(* `not domain or not domain.strip()` *)
Blank(domain) == domain = "" \/ Strip(domain) = ""

(* _get_cache at time t: [val, cache]; val is <<>> for None *)
get_cache_AtMostTtl(c, key, ttl, t) ==
    IF key \in DOMAIN c
    THEN IF t - c[key].timestamp <= ttl * Second
         THEN [val |-> <<c[key].val>>, cache |-> c]
         ELSE [val |-> <<>>, cache |-> [k \in DOMAIN c \ {key} |-> c[k]]]
    ELSE [val |-> <<>>, cache |-> c]

get_cache(c, key, ttl, t) ==
    IF key \in DOMAIN c
    THEN IF t - c[key].timestamp < ttl * Second
         THEN [val |-> <<c[key].val>>, cache |-> c]
         ELSE [val |-> <<>>, cache |-> [k \in DOMAIN c \ {key} |-> c[k]]]
    ELSE [val |-> <<>>, cache |-> c]

(* _set_cache at time t *)
set_cache(c, key, value, t) == (key :> [val |-> value, timestamp |-> t]) @@ c

(* ---- fetch_ransomware_list ---- *)
RansomwatchUrl == "https://raw.githubusercontent.com/joshhighet/ransomwatch/main/posts.json"

cache_age == CACHE_TTL_HOURS * 3600

NoFile == [exists |-> FALSE, mtime |-> 0, content |-> <<>>]

(* lines 65-72: the cache contents if the file exists and parses, else [] *)
StaleCache(file) ==
    IF file.exists /\ file.content # <<>> THEN file.content[1] ELSE <<>>

(* feed: [error, data], what requests.get / raise_for_status / resp.json()   *)
(* give; write: how lines 57-58 end ("ok", "open_fails": open() raises and  *)
(* the file is untouched, "dump_fails": the file is truncated and the write *)
(* raises).  Returns [ret, file, looked].                                   *)
fetch_ransomware_list(file, feed, write, t) ==
    IF file.exists /\ t - file.mtime < cache_age * Second
    THEN (* line 48; json.load raising leads to lines 61-72 *)
         [ret |-> StaleCache(file), file |-> file, looked |-> <<>>]
    ELSE IF feed.error
    THEN [ret |-> StaleCache(file), file |-> file, looked |-> <<RansomwatchUrl>>]
    ELSE CASE write = "ok" ->
                [ret |-> feed.data,
                 file |-> [exists |-> TRUE, mtime |-> t, content |-> <<feed.data>>],
                 looked |-> <<RansomwatchUrl>>]
           [] write = "open_fails" ->
                [ret |-> StaleCache(file), file |-> file, looked |-> <<RansomwatchUrl>>]
           [] OTHER ->
                [ret |-> <<>>,
                 file |-> [exists |-> TRUE, mtime |-> t, content |-> <<>>],
                 looked |-> <<RansomwatchUrl>>]

(* ---- check_vendor_ransomware ---- *)
(* a post is [post_title |-> words] or, when it is no JSON object or its     *)
(* title is no string, [malformed |-> TRUE]: lines 93 raises on it           *)
Malformed == [malformed |-> TRUE]

(* `name in title` for a non-empty name: the words of name occur in a row *)
PhraseIn(name, title) ==
    \E i \in 0..(Len(title) - Len(name)) :
        \A j \in 1..Len(name) : title[i + j] = name[j]

WordIn(w, title) == \E i \in 1..Len(title) : title[i] = w

(* lines 96-105 for one well-formed post *)
PostMatches(post, name, domain) ==
    \/ name # <<>> /\ PhraseIn(name, post.post_title)
    \/ domain # "" /\ WordIn(domain, post.post_title)
    \/ \E k \in 1..Len(name) : Len(name[k]) > 3 /\ WordIn(name[k], post.post_title)

(* lines 92-110: the first post that matches or raises decides *)
SearchPosts(list_data, name, domain) ==
    LET hits == {i \in 1..Len(list_data) :
                    list_data[i] = Malformed \/ PostMatches(list_data[i], name, domain)}
        first == CHOOSE i \in hits : \A j \in hits : i <= j
    IN  hits # {} /\ list_data[first] # Malformed

check_vendor_ransomware_EmptyIsFound(vendor_name, vendor_domain, file, feed, write, t) ==
    IF vendor_name = <<>> /\ vendor_domain = ""
    THEN [ret |-> FALSE, file |-> file, looked |-> <<>>]
    ELSE LET f == fetch_ransomware_list(file, feed, write, t)
             domain == Strip(vendor_domain)
         IN  [ret |-> \/ f.ret = <<>>
                      \/ /\ ~(vendor_name = <<>> /\ domain = "")
                         /\ SearchPosts(f.ret, vendor_name, domain),
              file |-> f.file, looked |-> f.looked]

check_vendor_ransomware(vendor_name, vendor_domain, file, feed, write, t) ==
    IF vendor_name = <<>> /\ vendor_domain = ""
    THEN [ret |-> FALSE, file |-> file, looked |-> <<>>]
    ELSE LET f == fetch_ransomware_list(file, feed, write, t)
             domain == Strip(vendor_domain)
         IN  [ret |-> /\ f.ret # <<>>
                      /\ ~(vendor_name = <<>> /\ domain = "")
                      /\ SearchPosts(f.ret, vendor_name, domain),
              file |-> f.file, looked |-> f.looked]

(* ---- check_dmarc ---- *)
(* a TXT record: [dmarc1, tags]: whether it starts with v=dmarc1 and which   *)
(* of the policy tags it contains; answer: [error, records]                 *)
Policy(txt) ==
    IF "p=reject" \in txt.tags THEN "reject"
    ELSE IF "p=quarantine" \in txt.tags THEN "quarantine"
    ELSE "none"

NoDmarc(domain) == [has_dmarc |-> FALSE, policy |-> None, domain |-> domain]

(* lines 123-148, the lookup and its result *)
ResolveDmarc_ErrorAsPresent(domain, answer) ==
    LET found == {i \in 1..Len(answer.records) : answer.records[i].dmarc1}
        first == CHOOSE i \in found : \A j \in found : i <= j
    IN  IF answer.error THEN [has_dmarc |-> TRUE, policy |-> "none", domain |-> domain]
        ELSE IF found = {} THEN NoDmarc(domain)
        ELSE [has_dmarc |-> TRUE, policy |-> Policy(answer.records[first]),
              domain |-> domain]

ResolveDmarc(domain, answer) ==
    LET found == {i \in 1..Len(answer.records) : answer.records[i].dmarc1}
        first == CHOOSE i \in found : \A j \in found : i <= j
    IN  IF answer.error \/ found = {} THEN NoDmarc(domain)
        ELSE [has_dmarc |-> TRUE, policy |-> Policy(answer.records[first]),
              domain |-> domain]

(* returns [ret, cache, looked] *)
check_dmarc(domain, answer, c, t) ==
    IF Blank(domain) THEN [ret |-> NoDmarc(domain), cache |-> c, looked |-> <<>>]
    ELSE LET cache_key == "dmarc_" \o domain
             cached == get_cache(c, cache_key, ttl_seconds, t)
             fresh == ResolveDmarc(domain, answer)
         IN  IF cached.val # <<>>
             THEN [ret |-> cached.val[1], cache |-> cached.cache, looked |-> <<>>]
             ELSE [ret |-> fresh,
                   cache |-> set_cache(cached.cache, cache_key, fresh, t),
                   looked |-> <<"_dmarc." \o domain>>]

(* ---- get_certificate_stats ---- *)
(* tls: [error, notAfter]: whether the connection or the handshake raised    *)
(* and the certificate's expiry as <<days>>, the whole days from now to it  *)
(* (line 172), or <<>> when the certificate names none                      *)
Grade_SevenIsF(days_remaining) ==
    IF days_remaining < 0 THEN "F"
    ELSE IF days_remaining <= 7 THEN "F"
    ELSE IF days_remaining < 30 THEN "C"
    ELSE IF days_remaining < 60 THEN "B"
    ELSE "A"

Grade(days_remaining) ==
    IF days_remaining < 0 THEN "F"
    ELSE IF days_remaining < 7 THEN "F"
    ELSE IF days_remaining < 30 THEN "C"
    ELSE IF days_remaining < 60 THEN "B"
    ELSE "A"

FailSafe == [valid |-> FALSE, daysRemaining |-> 0, grade |-> "F"]

(* lines 161-199, the connection and its result *)
CertificateStats(tls) ==
    IF tls.error \/ tls.notAfter = <<>> THEN FailSafe
    ELSE [valid |-> tls.notAfter[1] > 0,
          daysRemaining |-> tls.notAfter[1],
          grade |-> Grade(tls.notAfter[1])]

(* returns [ret, cache, looked] *)
get_certificate_stats(domain, tls, c, t) ==
    IF Blank(domain) THEN [ret |-> FailSafe, cache |-> c, looked |-> <<>>]
    ELSE LET cache_key == "ssl_" \o domain
             cached == get_cache(c, cache_key, ttl_seconds, t)
             fresh == CertificateStats(tls)
         IN  IF cached.val # <<>>
             THEN [ret |-> cached.val[1], cache |-> cached.cache, looked |-> <<>>]
             ELSE [ret |-> fresh,
                   cache |-> set_cache(cached.cache, cache_key, fresh, t),
                   looked |-> <<domain \o ":443">>]

(* ---- scan_vendor ---- *)
(* dict.get(key, default) *)
Get(d, key, default) == IF key \in DOMAIN d THEN d[key] ELSE default

(* line 255: [s.strip() for s in dmarc_subdomains.split(',') if s.strip()] *)
Subdomains(dmarc_subdomains) ==
    LET kept == SelectSeq(dmarc_subdomains, LAMBDA s : Strip(s) # "")
    IN  [i \in 1..Len(kept) |-> Strip(kept[i])]

(* the resolver's answer for a name; a name it was not told about fails *)
AnswerFor(dns, domain) ==
    IF domain \in DOMAIN dns THEN dns[domain] ELSE [error |-> TRUE, records |-> <<>>]

(* lines 258-261: [results, cache, now, looked] *)
RECURSIVE CheckEach(_, _, _, _)
CheckEach(subdomains, dns, c, t) ==
    IF subdomains = <<>>
    THEN [results |-> <<>>, cache |-> c, now |-> t, looked |-> <<>>]
    ELSE LET r == check_dmarc(Head(subdomains), AnswerFor(dns, Head(subdomains)), c, t)
             rest == CheckEach(Tail(subdomains), dns, r.cache, t + RATE_LIMIT_DELAY)
         IN  [results |-> <<r.ret>> \o rest.results, cache |-> rest.cache,
              now |-> rest.now, looked |-> r.looked \o rest.looked]

(* line 264, as the value osint_results['dmarc'] gets *)
has_any_dmarc(dmarc_results) ==
    \E i \in 1..Len(dmarc_results) : dmarc_results[i].has_dmarc

(* line 265 *)
all_have_dmarc(dmarc_results) ==
    \A i \in 1..Len(dmarc_results) : dmarc_results[i].has_dmarc

DomainsOf(dmarc_results) == [i \in 1..Len(dmarc_results) |-> dmarc_results[i].domain]

(* lines 270-289 *)
SubdomainWarnings(dmarc_results) ==
    IF ~has_any_dmarc(dmarc_results)
    THEN <<[type |-> "dmarc", severity |-> "Medium",
            message |-> [text |-> "No DMARC record found on specified email subdomains",
                         domains |-> DomainsOf(dmarc_results)],
            source |-> "DNS TXT record check",
            checked_domains |-> DomainsOf(dmarc_results)]>>
    ELSE IF ~all_have_dmarc(dmarc_results)
    THEN <<[type |-> "dmarc", severity |-> "Low",
            message |-> [text |-> "Some email subdomains missing DMARC",
                         domains |-> DomainsOf(SelectSeq(dmarc_results,
                                                  LAMBDA r : ~r.has_dmarc))],
            source |-> "DNS TXT record check",
            checked_domains |-> DomainsOf(dmarc_results)]>>
    ELSE <<>>

(* lines 233-246 *)
SslWarnings(ssl_stats) ==
    IF ssl_stats.grade = "F"
    THEN <<[type |-> "ssl", severity |-> "High",
            message |-> [text |-> "SSL certificate expired or expiring soon",
                         days |-> ssl_stats.daysRemaining],
            source |-> "Certificate validation"]>>
    ELSE IF ssl_stats.grade = "C"
    THEN <<[type |-> "ssl", severity |-> "Medium",
            message |-> [text |-> "SSL certificate expiring in",
                         days |-> ssl_stats.daysRemaining],
            source |-> "Certificate validation"]>>
    ELSE <<>>

(* net: [feed, write, tls, dns], what the network and the disk answer during *)
(* the scan.  Returns [ret, cache, file, now, looked].                       *)
scan_vendor(primary_domain, osint_urls, net_, c, file, t) ==
    LET vendor_name == Get(osint_urls, "vendor_name", <<>>)
        do_ransomware == vendor_name # <<>> \/ primary_domain # ""
        found == IF do_ransomware
                 THEN check_vendor_ransomware(vendor_name, primary_domain, file,
                                              net_.feed, net_.write, t)
                 ELSE [ret |-> FALSE, file |-> file, looked |-> <<>>]
        t1 == IF do_ransomware THEN t + RATE_LIMIT_DELAY ELSE t
        do_ssl == primary_domain # ""
        ssl_stats == IF do_ssl
                     THEN get_certificate_stats(primary_domain, net_.tls, c, t1)
                     ELSE [ret |-> FailSafe, cache |-> c, looked |-> <<>>]
        t2 == IF do_ssl THEN t1 + RATE_LIMIT_DELAY ELSE t1
        dmarc_subdomains == Get(osint_urls, "dmarc_subdomains", <<"">>)
        dmarc_checked == dmarc_subdomains # <<"">>
        each == IF dmarc_checked
                THEN CheckEach(Subdomains(dmarc_subdomains), net_.dns, ssl_stats.cache, t2)
                ELSE [results |-> <<>>, cache |-> ssl_stats.cache, now |-> t2,
                      looked |-> <<>>]
        do_primary == ~dmarc_checked /\ primary_domain # ""
        primary == IF do_primary
                   THEN check_dmarc(primary_domain, AnswerFor(net_.dns, primary_domain),
                                    each.cache, each.now)
                   ELSE [ret |-> NoDmarc(primary_domain), cache |-> each.cache,
                         looked |-> <<>>]
        warnings ==
            (IF do_ransomware /\ found.ret
             THEN <<[type |-> "ransomware", severity |-> "Critical",
                     message |-> [text |-> "found in ransomware leak database",
                                  vendor_name |-> vendor_name],
                     source |-> "Ransomwatch GitHub"]>>
             ELSE <<>>)
            \o (IF do_ssl THEN SslWarnings(ssl_stats.ret) ELSE <<>>)
            \o (IF dmarc_checked THEN SubdomainWarnings(each.results) ELSE <<>>)
            \o (IF do_primary /\ ~primary.ret.has_dmarc
                THEN <<[type |-> "dmarc", severity |-> "Medium",
                        message |-> [text |-> "No DMARC record found on primary domain",
                                     domains |-> <<primary_domain>>],
                        source |-> "DNS TXT record check",
                        checked_domains |-> <<primary_domain>>]>>
                ELSE <<>>)
        osint_results ==
            [ransomware |-> IF do_ransomware THEN PyBool(found.ret) ELSE None,
             ssl |-> IF do_ssl THEN ssl_stats.ret.grade ELSE None,
             dmarc |-> IF dmarc_checked THEN PyBool(has_any_dmarc(each.results))
                       ELSE IF do_primary THEN PyBool(primary.ret.has_dmarc)
                       ELSE None]
    IN  [ret |-> [warnings |-> warnings, osintResults |-> osint_results],
         cache |-> primary.cache, file |-> found.file, now |-> each.now,
         looked |-> found.looked \o ssl_stats.looked \o each.looked \o primary.looked]

(* ---- the inputs of the service ---- *)
MaxSubdomains == 2

MaxPosts == 2

DomainInputs == {"", " ", "mail.example"}

DaysValues == {-1, 0, 6, 7, 29, 30, 59, 60}

TlsOutcomes ==
    {[error |-> TRUE, notAfter |-> <<>>], [error |-> FALSE, notAfter |-> <<>>]}
        \cup {[error |-> FALSE, notAfter |-> <<d>>] : d \in DaysValues}

DnsAnswers ==
    {[error |-> TRUE, records |-> <<>>]}
        \cup {[error |-> FALSE, records |-> <<r>>] :
                r \in {[dmarc1 |-> TRUE, tags |-> {"p=reject"}],
                    [dmarc1 |-> TRUE, tags |-> {}],
                    [dmarc1 |-> FALSE, tags |-> {}]}}

VendorNames == {<<>>, <<"acme", "corp">>, <<"acme", "inc">>, <<"abc">>}

Posts ==
    {Malformed,
     [post_title |-> <<"acme", "corp", "leak">>],
     [post_title |-> <<"mail.example", "dump">>]}

RECURSIVE SeqsUpTo(_, _)
SeqsUpTo(S, n) ==
    IF n = 0 THEN {<<>>}
    ELSE LET shorter == SeqsUpTo(S, n - 1)
         IN  shorter \cup {Append(q, x) : q \in shorter, x \in S}

FeedOutcomes ==
    {[error |-> TRUE, data |-> <<>>]}
        \cup {[error |-> FALSE, data |-> d] : d \in SeqsUpTo(Posts, MaxPosts)}

WriteOutcomes == {"ok", "open_fails", "dump_fails"}

(***************************************************************************)
(* Storage (backend/database.py) and its gate (require_db, backend/main.py) *)
(*                                                                         *)
(* database is [is_locked, db, key, vendors, questions, cloud_criteria,    *)
(* settings, last_vendor_id]: _is_locked; _db ("None" or "open"); the      *)
(* password whose hash .tilt_key holds ("None" without the file; verify    *)
(* accepts exactly the hashed password); the tables as functions from id   *)
(* (settings: key) to row; the AUTOINCREMENT counter of vendors.  A JSON   *)
(* column holds the value json.loads gives back.                           *)
(***************************************************************************)
MaxVendorId == 1

MaxRowId == 1

MinPasswordLength == 8

(* the module as imported, before any file exists *)
DatabaseStart ==
    [is_locked |-> TRUE, db |-> None, key |-> None,
     vendors |-> <<>>, questions |-> <<>>, cloud_criteria |-> <<>>, settings |-> <<>>,
     last_vendor_id |-> 0]

Raised(kind, message) == [raised |-> TRUE, kind |-> kind, message |-> message]

Value(v) == [raised |-> FALSE, value |-> v]

(* get_db: the connection, or the exception *)
get_db_NeverRaises(d) ==
    Value(d.db)

get_db(d) ==
    IF d.db = None \/ d.is_locked
    THEN Raised("Exception", "Database is locked. Please unlock first.")
    ELSE Value(d.db)

HTTPException(status_code, detail) == [status_code |-> status_code, detail |-> detail]

Ok(body) == [status_code |-> 200, body |-> body]

(* require_db: get_db's value, or the 403 response of the request *)
require_db(d) ==
    IF get_db(d).raised THEN Raised("HTTPException", HTTPException(403, get_db(d).message))
    ELSE get_db(d)

Locked(d) == require_db(d).raised

(* without the rows of `ids` / with `row` at `id` *)
Without(table, ids) == [i \in DOMAIN table \ ids |-> table[i]]

With(table, id, row) == (id :> row) @@ table

(* seed_default_data: the default questions and criteria come from data     *)
(* files; seed says whether they are there, each with one row               *)
DefaultQuestions == (1 :> [question |-> "q", weight |-> "High"])

DefaultCriteria == (1 :> [criterion |-> "c", criticality |-> "Critical", points |-> 15])

seed_default_data(d, seed) ==
    [d EXCEPT
        !.questions = IF d.questions = <<>> /\ seed THEN DefaultQuestions ELSE @,
        !.cloud_criteria = IF d.cloud_criteria = <<>> /\ seed THEN DefaultCriteria ELSE @,
        !.settings =
            IF d.settings = <<>> THEN ("orgName" :> "Your Organisation")
            ELSE IF "orgName" \in DOMAIN @ /\ @["orgName"] = "Your Organization"
            THEN With(@, "orgName", "Your Organisation")
            ELSE @]

(* unlock_db; init: how init_db ends ("ok" or "fails", an sqlite3 error on   *)
(* its first statement).  Returns [ret, database].                           *)
unlock_db_OpensBeforeVerifying(password, d, init, seed) ==
    IF password = "" THEN [ret |-> Raised("ValueError", "Password required"), database |-> d]
    ELSE IF d.key # None /\ password # d.key
    THEN [ret |-> Raised("ValueError", "Invalid password"),
          database |-> [d EXCEPT !.db = "open", !.is_locked = FALSE]]
    ELSE IF d.key = None /\ Len(password) < MinPasswordLength
    THEN [ret |-> Raised("ValueError", "Password must be at least 8 characters"),
          database |-> d]
    ELSE LET opened == [d EXCEPT !.key = password, !.db = "open", !.is_locked = FALSE]
         IN  IF init = "ok"
             THEN [ret |-> Value([success |-> TRUE]),
                   database |-> seed_default_data(opened, seed)]
             ELSE [ret |-> Raised("OperationalError", "init_db"), database |-> opened]

unlock_db(password, d, init, seed) ==
    IF password = "" THEN [ret |-> Raised("ValueError", "Password required"), database |-> d]
    ELSE IF d.key # None /\ password # d.key
    THEN [ret |-> Raised("ValueError", "Invalid password"), database |-> d]
    ELSE IF d.key = None /\ Len(password) < MinPasswordLength
    THEN [ret |-> Raised("ValueError", "Password must be at least 8 characters"),
          database |-> d]
    ELSE LET opened == [d EXCEPT !.key = password, !.db = "open", !.is_locked = FALSE]
         IN  IF init = "ok"
             THEN [ret |-> Value([success |-> TRUE]),
                   database |-> seed_default_data(opened, seed)]
             ELSE [ret |-> Raised("OperationalError", "init_db"), database |-> opened]

(* change_password *)
change_password(old_password, new_password, d) ==
    IF d.is_locked
    THEN [ret |-> Raised("Exception", "Database must be unlocked first"), database |-> d]
    ELSE IF old_password = "" \/ new_password = ""
    THEN [ret |-> Raised("ValueError", "Both old and new passwords required"),
          database |-> d]
    ELSE IF Len(new_password) < MinPasswordLength
    THEN [ret |-> Raised("ValueError", "New password must be at least 8 characters"),
          database |-> d]
    ELSE IF d.key # None /\ old_password # d.key
    THEN [ret |-> Raised("ValueError", "Current password is incorrect"), database |-> d]
    ELSE [ret |-> Value([success |-> TRUE]), database |-> [d EXCEPT !.key = new_password]]

(* login / change_master_password: the exception mapped to a response *)
AuthResponse(ret, value_error_code) ==
    IF ~ret.raised THEN Ok(ret.value)
    ELSE IF ret.kind = "ValueError" THEN HTTPException(value_error_code, ret.message)
    ELSE HTTPException(500, ret.message)

(***************************************************************************)
(* The endpoints over the tables (backend/main.py).  Each gives            *)
(* [response, database, statements]: the response, the storage afterwards  *)
(* and the SQL statements it executed.  A vendor is [name, status,         *)
(* vulnerability, osint_warnings, osint_urls]; its name is a sequence of   *)
(* lower-case words as in PostMatches, osint_urls maps primary_domain to a *)
(* string and dmarc_subdomains to its split(',').  In a request the        *)
(* vulnerability is Optional: <<>> for None, <<v>> for v.                  *)
(***************************************************************************)
(* the 403 of require_db; no statement was executed *)
Refused(d) == [response |-> require_db(d).message, database |-> d, statements |-> <<>>]

Done(body, d, statements) ==
    [response |-> Ok(body), database |-> d, statements |-> statements]

(* an exception no handler catches *)
ServerError(d, statements) ==
    [response |-> HTTPException(500, "Internal Server Error"), database |-> d,
     statements |-> statements]

(* get_vendors: osintResults as rebuilt from the stored warnings, <<>> for  *)
(* None and <<osint_results>> otherwise;                                   *)
(* FirstOfType is next((w for w in warnings if w.get('type') == type), None) *)
ExtractResults(warnings) ==
    LET FirstOfType(type) ==
            LET of_type == SelectSeq(warnings, LAMBDA w : w.type = type)
            IN  IF of_type = <<>> THEN <<>> ELSE <<of_type[1]>>
        ransomware_warn == FirstOfType("ransomware")
        ssl_warn == FirstOfType("ssl")
        dmarc_warn == FirstOfType("dmarc")
    IN  IF ransomware_warn = <<>> /\ ssl_warn = <<>> /\ dmarc_warn = <<>> THEN <<>>
        ELSE <<[ransomware |-> PyBool(ransomware_warn # <<>>),
              ssl |-> IF ssl_warn = <<>> THEN None
                      ELSE IF ssl_warn[1].message.text
                                  = "SSL certificate expired or expiring soon"
                      THEN "F"
                      ELSE IF ssl_warn[1].severity = "High" THEN "C"
                      ELSE "B",
              dmarc |-> PyBool(dmarc_warn = <<>>)]>>

(* the row an INSERT or UPDATE writes for the request's vendor *)
Row(vendor) == [vendor EXCEPT !.vulnerability = vendor.vulnerability[1]]

(* cursor.lastrowid of an INSERT into a table with INTEGER PRIMARY KEY *)
NextRowId(table) ==
    IF DOMAIN table = {} THEN 1
    ELSE (CHOOSE i \in DOMAIN table : \A j \in DOMAIN table : j <= i) + 1

(* save_question / save_cloud_criterion: UPDATE WHERE id, or INSERT, of the *)
(* dict's columns                                                          *)
SaveRow(table, name, row) ==
    LET columns == [k \in DOMAIN row \ {"id"} |-> row[k]]
    IN  IF "id" \in DOMAIN row /\ row.id # 0
        THEN [id |-> row.id,
              table |-> IF row.id \in DOMAIN table THEN With(table, row.id, columns)
                        ELSE table,
              statements |-> <<"UPDATE " \o name>>]
        ELSE [id |-> NextRowId(table), table |-> With(table, NextRowId(table), columns),
              statements |-> <<"INSERT " \o name>>]

(* name.lower().replace(' ', '') *)
RECURSIVE Squeeze(_)
Squeeze(words) == IF words = <<>> THEN "" ELSE Head(words) \o Squeeze(Tail(words))

(* the vulnerability scan_osint stores: the stored one (or 100), raised by  *)
(* what the scan found                                                      *)
NewVulnerability(vulnerability, osint_results) ==
    LET new_vuln == IF vulnerability = 0 THEN 100 ELSE vulnerability
    IN  IF osint_results.ransomware = "True" THEN 100
        ELSE IF osint_results.ssl \in {"F", "Expired"}
        THEN IF new_vuln >= 80 THEN new_vuln ELSE 80
        ELSE new_vuln

(* scan_osint.  Gives [response, database, statements, cache, file, now,    *)
(* looked]: also what scan_vendor left of the service.                      *)
scan_osint(vendor_id, net_, d, c, file, t) ==
    LET untouched == [cache |-> c, file |-> file, now |-> t, looked |-> <<>>]
    IN  IF Locked(d) THEN Refused(d) @@ untouched
        ELSE IF vendor_id \notin DOMAIN d.vendors
        THEN [response |-> HTTPException(404, "Vendor not found"), database |-> d,
              statements |-> <<"SELECT vendors">>] @@ untouched
        ELSE
        LET vendor == d.vendors[vendor_id]
            stored == Get(vendor.osint_urls, "primary_domain", "")
            primary_domain == IF stored # "" THEN stored
                              ELSE IF vendor.name # <<>>
                              THEN Squeeze(vendor.name) \o ".com"
                              ELSE ""
            osint_urls == With(vendor.osint_urls, "vendor_name", vendor.name)
        IN  IF primary_domain = ""
            THEN [response |-> HTTPException(400,
                      "No domain provided for OSINT scan"),
                  database |-> d, statements |-> <<"SELECT vendors">>] @@ untouched
            ELSE
            LET scan == scan_vendor(primary_domain, osint_urls, net_, c, file, t)
                results == scan.ret
                new_vuln == NewVulnerability(vendor.vulnerability, results.osintResults)
            IN  [response |-> Ok([success |-> TRUE, results |-> results]),
                 database |->
                     [d EXCEPT !.vendors[vendor_id].osint_warnings = results.warnings,
                               !.vendors[vendor_id].vulnerability = new_vuln],
                 statements |-> <<"SELECT vendors", "UPDATE vendors", "SELECT vendors",
                                  "UPDATE vendors">>,
                 cache |-> scan.cache, file |-> scan.file, now |-> scan.now,
                 looked |-> scan.looked]

(***************************************************************************)
(* The calls.                                                              *)
(***************************************************************************)
Pending == [pending |-> TRUE]

CallCalcVulnerability ==
    /\ pc = "call"
    /\ op = "calc_vulnerability"
    /\ \E e \in VulnErrs(args.answers, args.questions) :
          /\ fe' = e
          /\ result' = calc_vulnerability(args.answers, args.questions, args.osint_results, e)
    /\ pc' = "done"
    /\ UNCHANGED <<op, args>>
    /\ UNCHANGED service

CallCalcImpactLikelihood ==
    /\ pc = "call"
    /\ op = "calc_impact_likelihood"
    /\ result' = calc_impact_likelihood(args.answers, args.questions, args.osint_results)
    /\ pc' = "done"
    /\ UNCHANGED <<op, args, fe>>
    /\ UNCHANGED service

CallCalcCloudVulnerability ==
    /\ pc = "call"
    /\ op = "calc_cloud_vulnerability"
    /\ \E e \in CloudErrs(args.scores, args.criteria) :
          /\ fe' = e
          /\ result' = calc_cloud_vulnerability(args.scores, args.criteria, args.osint_results, e)
    /\ pc' = "done"
    /\ UNCHANGED <<op, args>>
    /\ UNCHANGED service

CalculateAssessment ==
    /\ pc = "call"
    /\ op = "calculate_assessment"
    /\ \E e \in AssessmentErrs(args) :
          /\ fe' = e
          /\ result' = calculate_assessment(args, e)
    /\ pc' = "done"
    /\ UNCHANGED <<op, args>>
    /\ UNCHANGED service

(* the service as the import of osint_service leaves it, no cache file yet *)
ServiceStart ==
    /\ cache = <<>>
    /\ now = 0
    /\ ransom_cache = NoFile
    /\ lookups = <<>>
    /\ net = <<>>
    /\ database = DatabaseStart

InitCall(ops) ==
    /\ pc = "call"
    /\ fe = 0
    /\ result = Pending
    /\ op \in ops
    /\ ServiceStart

InitVulnerability == InitCall({"calc_vulnerability"}) /\ args \in StandardArgs

SpecVulnerability == InitVulnerability /\ [][CallCalcVulnerability]_vars

ImpactArgs ==
    [answers : AnswerMaps,
     questions : {q \in QuestionLists : Len(q) <= 1},
     osint_results : OsintValues]

InitImpact == InitCall({"calc_impact_likelihood"}) /\ args \in ImpactArgs

SpecImpact == InitImpact /\ [][CallCalcImpactLikelihood]_vars

InitCloud == InitCall({"calc_cloud_vulnerability"}) /\ args \in CloudArgs

SpecCloud == InitCloud /\ [][CallCalcCloudVulnerability]_vars

InitAssessment == InitCall({"calculate_assessment"}) /\ args \in AssessmentRequests

SpecAssessment == InitAssessment /\ [][CalculateAssessment]_vars

Init == InitVulnerability \/ InitImpact \/ InitCloud \/ InitAssessment

Next ==
    \/ CallCalcVulnerability
    \/ CallCalcImpactLikelihood
    \/ CallCalcCloudVulnerability
    \/ CalculateAssessment

Spec == Init /\ [][Next]_vars

(***************************************************************************)
(* The OSINT service as a process: calls arrive one after the other, the   *)
(* clock moves on between them, the network and the disk answer as they    *)
(* please.                                                                 *)
(***************************************************************************)
InitService ==
    /\ pc = "idle"
    /\ op = "none"
    /\ args = <<>>
    /\ fe = 0
    /\ result = Pending
    /\ ServiceStart

(* the caller has taken the result; the service waits for the next call *)
Return ==
    /\ pc = "done"
    /\ pc' = "idle"
    /\ op' = "none"
    /\ args' = <<>>
    /\ result' = Pending
    /\ lookups' = <<>>
    /\ net' = <<>>
    /\ UNCHANGED <<fe, cache, now, ransom_cache, database>>

(* time passes until one of the instants of `instants` *)
Elapse(instants) ==
    /\ pc = "idle"
    /\ \E t \in instants : t > now /\ now' = t
    /\ UNCHANGED <<op, args, fe, pc, result, cache, ransom_cache, lookups, net, database>>

CheckDmarc ==
    /\ pc = "idle"
    /\ \E domain \in DomainInputs, answer \in DnsAnswers :
        \E r \in {check_dmarc(domain, answer, cache, now)} :
            /\ op' = "check_dmarc"
            /\ args' = [domain |-> domain]
            /\ net' = answer
            /\ result' = r.ret
            /\ cache' = r.cache
            /\ lookups' = r.looked
            /\ pc' = "done"
            /\ UNCHANGED <<fe, now, ransom_cache, database>>

GetCertificateStats ==
    /\ pc = "idle"
    /\ \E domain \in DomainInputs, tls \in TlsOutcomes :
        \E r \in {get_certificate_stats(domain, tls, cache, now)} :
            /\ op' = "get_certificate_stats"
            /\ args' = [domain |-> domain]
            /\ net' = tls
            /\ result' = r.ret
            /\ cache' = r.cache
            /\ lookups' = r.looked
            /\ pc' = "done"
            /\ UNCHANGED <<fe, now, ransom_cache, database>>

CacheInstants ==
    {ttl_seconds * Second - 1, ttl_seconds * Second,
     2 * ttl_seconds * Second - 1, 2 * ttl_seconds * Second}

NextCache == CheckDmarc \/ GetCertificateStats \/ Return \/ Elapse(CacheInstants)

SpecCache == InitService /\ [][NextCache]_vars

FetchRansomwareList ==
    /\ pc = "idle"
    /\ \E feed \in FeedOutcomes, write \in WriteOutcomes :
        \E r \in {fetch_ransomware_list(ransom_cache, feed, write, now)} :
            /\ op' = "fetch_ransomware_list"
            /\ args' = <<>>
            /\ net' = [feed |-> feed, write |-> write]
            /\ result' = r.ret
            /\ ransom_cache' = r.file
            /\ lookups' = r.looked
            /\ pc' = "done"
            /\ UNCHANGED <<fe, now, cache, database>>

CheckVendorRansomware ==
    /\ pc = "idle"
    /\ \E vendor_name \in VendorNames, vendor_domain \in DomainInputs,
       feed \in FeedOutcomes, write \in WriteOutcomes :
        \E r \in {check_vendor_ransomware(vendor_name, vendor_domain, ransom_cache,
                                          feed, write, now)} :
            /\ op' = "check_vendor_ransomware"
            /\ args' = [vendor_name |-> vendor_name, vendor_domain |-> vendor_domain]
            /\ net' = [feed |-> feed, write |-> write]
            /\ result' = r.ret
            /\ ransom_cache' = r.file
            /\ lookups' = r.looked
            /\ pc' = "done"
            /\ UNCHANGED <<fe, now, cache, database>>

FeedInstants ==
    {cache_age * Second - 1, cache_age * Second,
     2 * cache_age * Second - 1, 2 * cache_age * Second}

NextFeed == FetchRansomwareList \/ CheckVendorRansomware \/ Return \/ Elapse(FeedInstants)

SpecFeed == InitService /\ [][NextFeed]_vars

(* the requests of a scan *)
SubdomainStrings ==
    SeqsUpTo({"", " mail.example", "news.example"}, MaxSubdomains) \ {<<>>}

OsintUrls ==
    {[k \in {"vendor_name"} |-> n] : n \in {<<>>, <<"acme", "corp">>}}
        \cup {("vendor_name" :> n) @@ ("dmarc_subdomains" :> d) :
                n \in {<<>>, <<"acme", "corp">>}, d \in SubdomainStrings}

ScanNetworks ==
    [feed : {[error |-> TRUE, data |-> <<>>],
             [error |-> FALSE, data |-> <<[post_title |-> <<"acme", "corp", "leak">>]>>]},
     write : {"ok"},
     tls : {[error |-> TRUE, notAfter |-> <<>>], [error |-> FALSE, notAfter |-> <<29>>],
            [error |-> FALSE, notAfter |-> <<60>>]},
     dns : [{"mail.example", "news.example"} ->
               {[error |-> TRUE, records |-> <<>>],
                [error |-> FALSE, records |-> <<[dmarc1 |-> TRUE, tags |-> {}]>>]}]]

ScanInstants == {MaxSubdomains + 3}

(* the cache file a scan may find at start: none, or the file an earlier    *)
(* run of the service wrote a day ago                                       *)
ScanFiles ==
    {NoFile,
     [exists |-> TRUE, mtime |-> 0 - cache_age * Second,
      content |-> <<<<[post_title |-> <<"acme", "corp", "leak">>]>>>>]}

InitScan ==
    /\ pc = "idle"
    /\ op = "none"
    /\ args = <<>>
    /\ fe = 0
    /\ result = Pending
    /\ cache = <<>>
    /\ now = 0
    /\ ransom_cache \in ScanFiles
    /\ lookups = <<>>
    /\ net = <<>>
    /\ database = DatabaseStart

ScanVendor ==
    /\ pc = "idle"
    /\ now \in {0} \cup ScanInstants
    /\ \E primary_domain \in {"", "mail.example"}, osint_urls \in OsintUrls,
          n \in ScanNetworks :
        \E r \in {scan_vendor(primary_domain, osint_urls, n, cache, ransom_cache, now)} :
            /\ op' = "scan_vendor"
            /\ args' = [primary_domain |-> primary_domain, osint_urls |-> osint_urls]
            /\ net' = n
            /\ result' = r.ret
            /\ cache' = r.cache
            /\ ransom_cache' = r.file
            /\ now' = r.now
            /\ lookups' = r.looked
            /\ pc' = "done"
            /\ UNCHANGED <<fe, database>>

NextScan == ScanVendor \/ Return \/ Elapse(ScanInstants)

SpecScan == InitScan /\ [][NextScan]_vars

(***************************************************************************)
(* The API (backend/main.py): one request at a time, each handler runs to  *)
(* its response.  result is the response, lookups the SQL statements and   *)
(* the network targets of the request.                                     *)
(***************************************************************************)
Passwords == {"", "short", "password-one", "password-two"}

VendorIds == 1..MaxVendorId

RowIds == 1..MaxRowId

VendorInputs ==
    [name : {<<>>, <<"acme", "corp">>}, status : {"Active"},
     vulnerability : {<<>>, <<0>>, <<50>>, <<90>>}, osint_warnings : {<<>>},
     osint_urls : {<<>>, ("primary_domain" :> "mail.example"),
                   ("primary_domain" :> "mail.example")
                       @@ ("dmarc_subdomains" :> <<"news.example">>),
                   ("primary_domain" :> "mail.example")
                       @@ ("dmarc_subdomains" :> <<"mail.example", "news.example">>)}]

QuestionInputs ==
    {[question |-> "q", weight |-> "High"]}
        \cup {[id |-> i, question |-> "q", weight |-> "Low"] : i \in RowIds}

CriterionInputs ==
    {[criterion |-> "c", criticality |-> "Critical", points |-> 15]}
        \cup {[id |-> i, criterion |-> "c", criticality |-> "High", points |-> 10] :
                i \in RowIds}

(* what an earlier run of the program left on disk: nothing, or a key file   *)
(* and a database with a vendor in it                                        *)
StoredDatabases ==
    {DatabaseStart,
     [is_locked |-> TRUE, db |-> None, key |-> "password-one",
      vendors |-> (1 :> [name |-> <<"acme", "corp">>, status |-> "Active",
                         vulnerability |-> 50, osint_warnings |-> <<>>,
                         osint_urls |-> <<>>]),
      questions |-> DefaultQuestions, cloud_criteria |-> DefaultCriteria,
      settings |-> ("orgName" :> "Your Organisation"), last_vendor_id |-> 1]}

InitApi ==
    /\ pc = "idle"
    /\ op = "none"
    /\ args = <<>>
    /\ fe = 0
    /\ result = Pending
    /\ cache = <<>>
    /\ now = 0
    /\ ransom_cache = NoFile
    /\ lookups = <<>>
    /\ net = <<>>
    /\ database \in StoredDatabases

(* a request to an endpoint that touches nothing but the storage *)
Request(endpoint, arguments, r) ==
    /\ pc = "idle"
    /\ op' = endpoint
    /\ args' = arguments
    /\ result' = r.response
    /\ database' = r.database
    /\ lookups' = r.statements
    /\ pc' = "done"
    /\ UNCHANGED <<fe, cache, now, ransom_cache, net>>

login ==
    \E password \in Passwords, init \in {"ok", "fails"}, seed \in BOOLEAN :
        \E r \in {unlock_db(password, database, init, seed)} :
            Request("login", [password |-> password],
                    [response |-> AuthResponse(r.ret, 401), database |-> r.database,
                     statements |-> <<>>])

change_master_password ==
    \E old_password \in Passwords, new_password \in Passwords :
        \E r \in {change_password(old_password, new_password, database)} :
            Request("change_master_password",
                    [old_password |-> old_password, new_password |-> new_password],
                    [response |-> AuthResponse(r.ret, 400), database |-> r.database,
                     statements |-> <<>>])

(* the rows as a function of id; the order of the list is not modelled *)
get_vendors ==
    LET d == database
    IN  Request("get_vendors", <<>>,
            IF Locked(d) THEN Refused(d)
            ELSE Done([id \in DOMAIN d.vendors |->
                          [osintResults |-> ExtractResults(d.vendors[id].osint_warnings)]
                              @@ d.vendors[id]],
                      d, <<"SELECT vendors">>))

create_vendor(inputs) ==
    LET d == database
    IN  /\ Locked(d) \/ d.last_vendor_id < MaxVendorId
        /\ \E vendor \in inputs :
            Request("create_vendor", [vendor |-> vendor],
                IF Locked(d) THEN Refused(d)
                ELSE IF vendor.vulnerability = <<>>
                THEN ServerError(d, <<"INSERT vendors">>)
                ELSE LET id == d.last_vendor_id + 1
                     IN  Done([success |-> TRUE, id |-> id],
                              [d EXCEPT !.vendors = With(@, id, Row(vendor)),
                                        !.last_vendor_id = id],
                              <<"INSERT vendors">>))

update_vendor(inputs) ==
    LET d == database
    IN  \E vendor_id \in VendorIds, vendor \in inputs :
            Request("update_vendor", [vendor_id |-> vendor_id, vendor |-> vendor],
                IF Locked(d) THEN Refused(d)
                ELSE IF vendor_id \notin DOMAIN d.vendors
                THEN Done([success |-> TRUE, id |-> vendor_id], d, <<"UPDATE vendors">>)
                ELSE IF vendor.vulnerability = <<>>
                THEN ServerError(d, <<"UPDATE vendors">>)
                ELSE Done([success |-> TRUE, id |-> vendor_id],
                          [d EXCEPT !.vendors = With(@, vendor_id, Row(vendor))],
                          <<"UPDATE vendors">>))

delete_vendor ==
    LET d == database
    IN  \E vendor_id \in VendorIds :
            Request("delete_vendor", [vendor_id |-> vendor_id],
                IF Locked(d) THEN Refused(d)
                ELSE Done([success |-> TRUE],
                          [d EXCEPT !.vendors = Without(@, {vendor_id})],
                          <<"DELETE vendors">>))

get_questions ==
    LET d == database
    IN  Request("get_questions", <<>>,
            IF Locked(d) THEN Refused(d)
            ELSE Done(d.questions, d, <<"SELECT questions">>))

save_question ==
    LET d == database
    IN  \E question \in QuestionInputs :
            /\ \/ Locked(d) \/ "id" \in DOMAIN question
               \/ NextRowId(d.questions) <= MaxRowId
            /\ Request("save_question", [question |-> question],
                   IF Locked(d) THEN Refused(d)
                   ELSE LET saved == SaveRow(d.questions, "questions", question)
                        IN  Done([success |-> TRUE, id |-> saved.id],
                                 [d EXCEPT !.questions = saved.table],
                                 saved.statements))

delete_question ==
    LET d == database
    IN  \E question_id \in RowIds :
            Request("delete_question", [question_id |-> question_id],
                IF Locked(d) THEN Refused(d)
                ELSE Done([success |-> TRUE],
                          [d EXCEPT !.questions = Without(@, {question_id})],
                          <<"DELETE questions">>))

get_cloud_criteria ==
    LET d == database
    IN  Request("get_cloud_criteria", <<>>,
            IF Locked(d) THEN Refused(d)
            ELSE Done(d.cloud_criteria, d, <<"SELECT cloud_criteria">>))

save_cloud_criterion ==
    LET d == database
    IN  \E criterion \in CriterionInputs :
            /\ \/ Locked(d) \/ "id" \in DOMAIN criterion
               \/ NextRowId(d.cloud_criteria) <= MaxRowId
            /\ Request("save_cloud_criterion", [criterion |-> criterion],
                   IF Locked(d) THEN Refused(d)
                   ELSE LET saved == SaveRow(d.cloud_criteria, "cloud_criteria",
                                             criterion)
                        IN  Done([success |-> TRUE, id |-> saved.id],
                                 [d EXCEPT !.cloud_criteria = saved.table],
                                 saved.statements))

delete_cloud_criterion ==
    LET d == database
    IN  \E criterion_id \in RowIds :
            Request("delete_cloud_criterion", [criterion_id |-> criterion_id],
                IF Locked(d) THEN Refused(d)
                ELSE Done([success |-> TRUE],
                          [d EXCEPT !.cloud_criteria = Without(@, {criterion_id})],
                          <<"DELETE cloud_criteria">>))

get_settings ==
    LET d == database
    IN  Request("get_settings", <<>>,
            IF Locked(d) THEN Refused(d)
            ELSE Done(d.settings, d, <<"SELECT settings">>))

(* orgName: the string, or None *)
save_settings ==
    LET d == database
    IN  \E orgName \in {None, "Acme Ltd", "Your Organization"} :
            Request("save_settings", [orgName |-> orgName],
                IF Locked(d) THEN Refused(d)
                ELSE IF orgName # None /\ orgName # ""
                THEN Done([success |-> TRUE],
                          [d EXCEPT !.settings = With(@, "orgName", orgName)],
                          <<"INSERT OR REPLACE settings">>)
                ELSE Done([success |-> TRUE], d, <<>>))

ScanOsint(networks) ==
    /\ pc = "idle"
    /\ Locked(database) \/ now \in {0} \cup ScanInstants
    /\ \E vendor_id \in VendorIds, n \in networks :
        \E r \in {scan_osint(vendor_id, n, database, cache, ransom_cache, now)} :
            /\ op' = "scan_osint"
            /\ args' = [vendor_id |-> vendor_id]
            /\ net' = n
            /\ result' = r.response
            /\ database' = r.database
            /\ cache' = r.cache
            /\ ransom_cache' = r.file
            /\ now' = r.now
            /\ lookups' = r.statements \o r.looked
            /\ pc' = "done"
            /\ UNCHANGED fe

(* the API with few vendors and a network that answers nothing *)
NextLock ==
    LET few_vendors ==
            {v \in VendorInputs :
                v.vulnerability \in {<<>>, <<50>>} /\ v.osint_urls = <<>>}
        no_network ==
            {n \in ScanNetworks :
                /\ n.feed.error /\ n.tls.error
                /\ \A s \in DOMAIN n.dns : n.dns[s].error}
    IN  \/ login
        \/ change_master_password
        \/ get_vendors
        \/ create_vendor(few_vendors)
        \/ update_vendor(few_vendors)
        \/ delete_vendor
        \/ get_questions
        \/ save_question
        \/ delete_question
        \/ get_cloud_criteria
        \/ save_cloud_criterion
        \/ delete_cloud_criterion
        \/ get_settings
        \/ save_settings
        \/ ScanOsint(no_network)
        \/ Return

SpecLock == InitApi /\ [][NextLock]_vars

NextVendorScan ==
    \/ login
    \/ create_vendor(VendorInputs)
    \/ ScanOsint(ScanNetworks)
    \/ Return
    \/ Elapse(ScanInstants)

SpecVendorScan == InitApi /\ [][NextVendorScan]_vars


(***************************************************************************)
(* Properties of the standard track.                                       *)
(***************************************************************************)
RECURSIVE SumFn(_)
SumFn(f) ==
    IF DOMAIN f = {} THEN 0
    ELSE LET i == CHOOSE j \in DOMAIN f : TRUE
         IN  f[i] + SumFn([j \in DOMAIN f \ {i} |-> f[j]])

Abs(n) == IF n < 0 THEN 0 - n ELSE n

Max2(a, b) == IF a < b THEN b ELSE a

FloatEq(a, b) == a.num * b.den = b.num * a.den

Returned(o) == pc = "done" /\ op = o

(* the positions of `questions` whose id has a non-null answer *)
Matched(answers, questions) ==
    {i \in 1..Len(questions) :
        questions[i].id \in DOMAIN answers /\ answers[questions[i].id] # NoneLevel}

W(q) == CASE q.weight = "Critical" -> 3 [] q.weight = "High" -> 2 [] OTHER -> 1

Ssl80(o) == Truthy(o) /\ o.ssl \in {"F", "Expired"}

Dmarc60(o) == Truthy(o) /\ o.dmarc = PyFalse

IsRansomware(o) == Truthy(o) /\ o.ransomware = PyTrue

(* C1: calc_vulnerability returns exactly 100 when the answers map is empty *)
(* and when no question of `questions` has an id with a non-null answer,    *)
(* whatever the questions list and the osint_results are.                   *)
C1_NoDataIs100 ==
    Returned("calc_vulnerability") =>
        ((DOMAIN args.answers = {} \/ Matched(args.answers, args.questions) = {})
            => result = 100)

(* a non-empty answers map with a non-null answer, a non-empty questions    *)
(* list, an SSL floor that would apply, and no question matches             *)
C1_Witness ==
    /\ Returned("calc_vulnerability")
    /\ \E i \in DOMAIN args.answers : args.answers[i] # NoneLevel
    /\ args.questions # <<>>
    /\ Matched(args.answers, args.questions) = {}
    /\ Ssl80(args.osint_results)
    /\ result = 100

(* C2: with at least one answered question and no OSINT floor applicable,   *)
(* calc_vulnerability returns an integer nearest to                         *)
(* 100 * (sum of w_q * (6 - a_q) / 5) / (sum of w_q) over the answered      *)
(* questions, w_q = 3 for Critical, 2 for High, 1 otherwise; it is 20 when  *)
(* every answered question is at level 5.                                   *)
C2_WeightedMean ==
    Returned("calc_vulnerability") =>
        LET a == args.answers
            q == args.questions
            m == Matched(a, q)
            sw == SumFn([i \in m |-> W(q[i])])
            ss == SumFn([i \in m |-> W(q[i]) * (6 - a[q[i].id])])
        IN  (m # {} /\ ~Ssl80(args.osint_results) /\ ~Dmarc60(args.osint_results))
                => /\ 2 * Abs(100 * ss - 5 * sw * result) <= 5 * sw
                   /\ (\A i \in m : a[q[i].id] = 5) => result = 20

(* a Critical question answered 2 and a Low question answered 5, a third    *)
(* answer being null or absent: (3 * 0.8 + 1 * 0.2) / 4 = 65%                *)
C2_Witness ==
    /\ Returned("calc_vulnerability")
    /\ Len(args.questions) = 2
    /\ args.questions[1].weight = "Critical"
    /\ args.questions[2].weight = "Low"
    /\ Cardinality(Matched(args.answers, args.questions)) = 2
    /\ args.answers[args.questions[1].id] = 2
    /\ args.answers[args.questions[2].id] = 5
    /\ ~Truthy(args.osint_results)
    /\ result = 65

(* C3: the result with osint_results is the maximum of the result without   *)
(* them, 80 if ssl is F or Expired, and 60 if dmarc is exactly False.       *)
C3_OsintFloors ==
    Returned("calc_vulnerability") =>
        LET base == calc_vulnerability(args.answers, args.questions, NoOsint, fe)
            f80 == IF Ssl80(args.osint_results) THEN Max2(base, 80) ELSE base
            f60 == IF Dmarc60(args.osint_results) THEN Max2(f80, 60) ELSE f80
        IN  result = f60

(* both floors apply to a base result below 60 *)
C3_Witness ==
    /\ Returned("calc_vulnerability")
    /\ calc_vulnerability(args.answers, args.questions, NoOsint, fe) < 60
    /\ args.osint_results # NoOsint
    /\ args.osint_results.ssl = "Expired"
    /\ args.osint_results.dmarc = PyFalse
    /\ result = 80

(* C4: calc_impact_likelihood returns impact 3 when no answer is non-null,  *)
(* else impact clamp(6 - m / 1.2, 1, 5) for the mean m of the non-null      *)
(* answers, whatever `questions` is; likelihood equals impact unless        *)
(* ransomware is True; both lie in [1, 5].                                  *)
C4_ImpactLikelihood ==
    Returned("calc_impact_likelihood") =>
        LET a == args.answers
            vals == {i \in DOMAIN a : a[i] # NoneLevel}
            n == Cardinality(vals)
            s == SumFn([i \in vals |-> a[i]])
            x == 36 * n - 5 * s
        IN  /\ ~IsRansomware(args.osint_results)
                => FloatEq(result.likelihood, result.impact)
            /\ n = 0 => FloatEq(result.impact, Exact(3))
            /\ n > 0 =>
                  IF x > 30 * n THEN FloatEq(result.impact, Exact(5))
                  ELSE IF x < 6 * n THEN FloatEq(result.impact, Exact(1))
                  ELSE result.impact.num * 6 * n = x * result.impact.den
            /\ \A v \in {result.impact, result.likelihood} :
                  v.den > 0 /\ v.den <= v.num /\ v.num <= 5 * v.den

(* one null answer and one answer of 3: m = 3, impact = likelihood = 3.5    *)
C4_Witness ==
    /\ Returned("calc_impact_likelihood")
    /\ \E i, j \in DOMAIN args.answers :
          args.answers[i] = NoneLevel /\ args.answers[j] = 3
    /\ args.questions = <<>>
    /\ ~IsRansomware(args.osint_results)
    /\ result.impact.num * 2 = 7 * result.impact.den
    /\ result.likelihood = result.impact

(* C5: for the same answers, impact is the same for every osint value, and  *)
(* likelihood is the same for every osint value that agrees on whether      *)
(* ransomware is True; ransomware True sets likelihood to exactly 5.        *)
C5_OnlyRansomware ==
    Returned("calc_impact_likelihood") =>
        /\ \A o \in OsintValues, q \in {<<>>, args.questions} :
              LET other == calc_impact_likelihood(args.answers, q, o)
              IN  /\ other.impact = result.impact
                  /\ IsRansomware(o) = IsRansomware(args.osint_results)
                        => other.likelihood = result.likelihood
        /\ IsRansomware(args.osint_results) => result.likelihood = Exact(5)

(* ransomware True with a failing certificate and no DMARC: likelihood 5,   *)
(* impact still the value the answers give                                  *)
C5_Witness ==
    /\ Returned("calc_impact_likelihood")
    /\ IsRansomware(args.osint_results)
    /\ args.osint_results.ssl = "F"
    /\ args.osint_results.dmarc = PyFalse
    /\ \E i \in DOMAIN args.answers : args.answers[i] = 5
    /\ result.likelihood = Exact(5)
    /\ FloatLess(result.impact, Exact(5))

(***************************************************************************)
(* Properties of the cloud track.                                          *)
(***************************************************************************)
(* the exact sum of maturity * points over the criteria, in fifths, a       *)
(* criterion without a score counting 0                                     *)
Fifths(scores, criteria) ==
    SumFn([i \in 1..Len(criteria) |->
              IF criteria[i].id \in DOMAIN scores
              THEN scores[criteria[i].id] * criteria[i].points ELSE 0])

(* total_score as the code holds it: the exact sum and the sign of the      *)
(* rounding error of this call                                              *)
TotalScore == [num |-> Fifths(args.scores, args.criteria), den |-> 5, err |-> fe]

Reject == [status |-> "REJECT (Critical Risk)", statusColor |-> "red"]

StatusOf(r) == [status |-> r.status, statusColor |-> r.statusColor]

(* C6: missedCritical is true iff some criterion of criticality Critical    *)
(* has score 0 or no entry in the scores map, and then the status is        *)
(* REJECT (Critical Risk) / red whatever total_score is.                    *)
C6_MissedCritical ==
    Returned("calc_cloud_vulnerability") =>
        /\ result.missedCritical =
              (\E i \in 1..Len(args.criteria) :
                  /\ args.criteria[i].criticality = "Critical"
                  /\ \/ args.criteria[i].id \notin DOMAIN args.scores
                     \/ args.scores[args.criteria[i].id] = 0)
        /\ result.missedCritical => StatusOf(result) = Reject

(* a Critical criterion without a score next to a total_score of 45 *)
C6_Witness ==
    /\ Returned("calc_cloud_vulnerability")
    /\ \E i \in 1..Len(args.criteria) :
          /\ args.criteria[i].criticality = "Critical"
          /\ args.criteria[i].id \notin DOMAIN args.scores
    /\ Fifths(args.scores, args.criteria) >= 5 * 45
    /\ result.missedCritical
    /\ StatusOf(result) = Reject

(* C7: with missedCritical false the status and color follow total_score by *)
(* strict comparisons: below 15 REJECT/red, below 30 Restricted/amber,      *)
(* below 45 Standard Approval/yellow, else Elite/green, so that 15, 30 and  *)
(* 45 themselves land in the higher tier; the osint_results do not change   *)
(* the status.                                                              *)
C7_StatusThresholds ==
    Returned("calc_cloud_vulnerability") =>
        /\ ~result.missedCritical =>
              StatusOf(result) =
                 IF FloatLess(TotalScore, Exact(15)) THEN Reject
                 ELSE IF FloatLess(TotalScore, Exact(30))
                 THEN [status |-> "Restricted (Deficient)", statusColor |-> "amber"]
                 ELSE IF FloatLess(TotalScore, Exact(45))
                 THEN [status |-> "Standard Approval", statusColor |-> "yellow"]
                 ELSE [status |-> "Elite (Pre-approved)", statusColor |-> "green"]
        /\ StatusOf(result)
              = StatusOf(calc_cloud_vulnerability(args.scores, args.criteria, NoOsint, fe))

(* total_score is exactly 45 and nothing is missed: Elite, although the SSL *)
(* floor lifts the vulnerability to 80                                      *)
C7_Witness ==
    /\ Returned("calc_cloud_vulnerability")
    /\ TotalScore = [num |-> 5 * 45, den |-> 5, err |-> 0]
    /\ ~result.missedCritical
    /\ Ssl80(args.osint_results)
    /\ result.vulnerability = 80
    /\ StatusOf(result) = [status |-> "Elite (Pre-approved)", statusColor |-> "green"]

C9_Ranges ==
    /\ Returned("calc_vulnerability") => result \in 0..100
    /\ Returned("calc_cloud_vulnerability") =>
          /\ result.vulnerability \in 0..100
          /\ result.score \in 0..result.maxScore

DmarcWarnings(r) == SelectSeq(r.warnings, LAMBDA w : w.type = "dmarc")

(* the subdomains the caller of the scan supplied *)
Supplied == Subdomains(Get(args.osint_urls, "dmarc_subdomains", <<"">>))

(* the DMARC check of `domain` was made and what it found: after a scan the  *)
(* cache holds the result of every check the scan made                      *)
Checked(domain) == ("dmarc_" \o domain) \in DOMAIN cache

HasDmarc(domain) == Checked(domain) /\ cache["dmarc_" \o domain].val.has_dmarc

(* C11: scan_vendor checks every supplied email subdomain; osintResults.dmarc *)
(* is true iff at least one of them has DMARC; there is exactly one dmarc     *)
(* warning, of severity Medium, if none has it, exactly one, of severity Low, *)
(* if some but not all have it, and none if all have it; when no subdomain is *)
(* supplied the primary domain is checked and osintResults.dmarc is that      *)
(* check's has_dmarc.                                                         *)
C11_SubdomainDmarc ==
    Returned("scan_vendor") =>
        LET n == Len(Supplied)
            have == {i \in 1..n : HasDmarc(Supplied[i])}
            dw == DmarcWarnings(result)
        IN  /\ n > 0 =>
                /\ \A i \in 1..n : Checked(Supplied[i])
                /\ result.osintResults.dmarc = PyBool(have # {})
                /\ have = {} => Len(dw) = 1 /\ dw[1].severity = "Medium"
                /\ (have # {} /\ have # 1..n) => Len(dw) = 1 /\ dw[1].severity = "Low"
                /\ have = 1..n => dw = <<>>
            /\ (n = 0 /\ args.primary_domain # "") =>
                /\ Checked(args.primary_domain)
                /\ result.osintResults.dmarc = PyBool(HasDmarc(args.primary_domain))

(* every network check of the scan fails: the feed is unavailable, the TLS   *)
(* connection and every DNS resolution raise                                 *)
AllChecksFail ==
    /\ net.feed.error
    /\ net.tls.error
    /\ \A d \in DOMAIN net.dns : net.dns[d].error

(* the domains whose DMARC record the scan asks for *)
DmarcTargets ==
    IF Get(args.osint_urls, "dmarc_subdomains", <<"">>) # <<"">>
    THEN {Supplied[i] : i \in 1..Len(Supplied)}
    ELSE {args.primary_domain} \ {""}

Sent(lookup) == \E i \in 1..Len(lookups) : lookups[i] = lookup

(* no check of the scan was answered from a cache: the TLS lookup and every  *)
(* DNS lookup were sent, and no cache file with a readable list exists       *)
NothingCached ==
    /\ Sent(args.primary_domain \o ":443")
    /\ \A d \in DmarcTargets : Sent("_dmarc." \o d)
    /\ StaleCache(ransom_cache) = <<>>

FailSafeResults == [ransomware |-> PyFalse, ssl |-> "F", dmarc |-> PyFalse]

HasFailWarnings ==
    /\ \E i \in 1..Len(result.warnings) :
          result.warnings[i].type = "ssl" /\ result.warnings[i].severity = "High"
    /\ \E i \in 1..Len(result.warnings) :
          result.warnings[i].type = "dmarc" /\ result.warnings[i].severity = "Medium"

(* C12 as stated: scan_vendor always returns {warnings, osintResults}, and    *)
(* for a non-empty primary domain where every network check fails the        *)
(* osintResults are {ransomware: False, ssl: 'F', dmarc: False} and the       *)
(* warnings contain the ssl warning and the dmarc warning.                   *)
C12_AllFailDefaults ==
    Returned("scan_vendor") =>
        /\ DOMAIN result = {"warnings", "osintResults"}
        /\ (args.primary_domain # "" /\ AllChecksFail) =>
              result.osintResults = FailSafeResults /\ HasFailWarnings

(* C12, amended: scan_vendor always returns {warnings, osintResults}, and for *)
(* a non-empty primary domain where every network check fails and no check   *)
(* is answered from a cache (in-memory entry or readable ransomware cache    *)
(* file) the osintResults are {ransomware: False, ssl: 'F', dmarc: False} and *)
(* the warnings contain the High ssl warning and the Medium dmarc warning.   *)
C12_FailSafeWithoutCache ==
    Returned("scan_vendor") =>
        /\ DOMAIN result = {"warnings", "osintResults"}
        /\ (args.primary_domain # "" /\ AllChecksFail /\ NothingCached) =>
              result.osintResults = FailSafeResults /\ HasFailWarnings

(* a named vendor, two subdomains, every lookup sent and failed *)
C12_Witness ==
    /\ Returned("scan_vendor")
    /\ args.primary_domain # ""
    /\ Get(args.osint_urls, "vendor_name", <<>>) # <<>>
    /\ Cardinality(DmarcTargets) = 2
    /\ AllChecksFail
    /\ NothingCached
    /\ Sent(RansomwatchUrl)
    /\ result.osintResults = FailSafeResults
    /\ HasFailWarnings

(* the grade the specification gives d days before expiry *)
GradeOfDays(d) ==
    CASE d < 7 -> "F"
      [] 7 <= d /\ d < 30 -> "C"
      [] 30 <= d /\ d < 60 -> "B"
      [] OTHER -> "A"

(* C13: get_certificate_stats grades by the days remaining d: F if d < 7     *)
(* (expired included), C if 7 <= d < 30, B if 30 <= d < 60, A if d >= 60; a   *)
(* connection error, an empty domain and a missing expiry give valid false   *)
(* and grade F; valid false always comes with grade F.                       *)
C13_CertificateGrades ==
    Returned("get_certificate_stats") =>
        /\ result.grade = GradeOfDays(result.daysRemaining)
        /\ (lookups # <<>> /\ ~net.error /\ net.notAfter # <<>>) =>
              /\ result.daysRemaining = net.notAfter[1]
              /\ result.grade = GradeOfDays(net.notAfter[1])
        /\ (lookups # <<>> /\ (net.error \/ net.notAfter = <<>>)) =>
              result.valid = FALSE /\ result.grade = "F"
        /\ args.domain \in {"", " "} => result.valid = FALSE /\ result.grade = "F"
        /\ result.valid = FALSE => result.grade = "F"

(* a certificate with exactly 7 days left, looked up and graded C *)
C13_Witness ==
    /\ Returned("get_certificate_stats")
    /\ lookups = <<args.domain \o ":443">>
    /\ net = [error |-> FALSE, notAfter |-> <<7>>]
    /\ result = [valid |-> TRUE, daysRemaining |-> 7, grade |-> "C"]

(* the fetch of the feed was attempted and failed *)
FetchFailed == Sent(RansomwatchUrl) /\ net.feed.error

(* C14 as stated: check_vendor_ransomware returns a boolean for every vendor  *)
(* name and domain and every state of the feed and its cache, and returns    *)
(* false when the fetch of the feed fails.                                   *)
C14_FalseOnFetchFailure ==
    Returned("check_vendor_ransomware") =>
        /\ result \in BOOLEAN
        /\ FetchFailed => result = FALSE

(* C14, amended: check_vendor_ransomware returns a boolean for every vendor   *)
(* name and domain and every state of the feed and its cache; when the fetch *)
(* of the feed fails it answers from the stale cache file, and returns false *)
(* when no cache file with a readable list exists.                           *)
C14_FalseWithoutStaleCache ==
    Returned("check_vendor_ransomware") =>
        /\ result \in BOOLEAN
        /\ FetchFailed =>
              /\ StaleCache(ransom_cache) = <<>> => result = FALSE
              /\ result = TRUE =>
                    \E i \in 1..Len(StaleCache(ransom_cache)) :
                        /\ StaleCache(ransom_cache)[i] # Malformed
                        /\ PostMatches(StaleCache(ransom_cache)[i], args.vendor_name,
                                       Strip(args.vendor_domain))

(* a named vendor, the fetch fails, an unreadable cache file is all there is *)
C14_Witness ==
    /\ Returned("check_vendor_ransomware")
    /\ args.vendor_name # <<>>
    /\ FetchFailed
    /\ ransom_cache.exists
    /\ ransom_cache.content = <<>>
    /\ result = FALSE

(* a call of fetch_ransomware_list, from the state it finds to the state it *)
(* leaves                                                                   *)
FetchStep == pc = "idle" /\ pc' = "done" /\ op' = "fetch_ransomware_list"

(* the cache file is younger than 24 hours *)
Fresh == ransom_cache.exists /\ now - ransom_cache.mtime < 24 * 3600 * Second

(* C18: fetch_ransomware_list, over any sequence of calls: if the cache file  *)
(* exists and is younger than 24 hours it returns the cached list without a  *)
(* network fetch; otherwise it fetches, and on success overwrites the cache  *)
(* file and returns the fresh list; on failure it returns the stale cache    *)
(* contents if a readable cache file exists and the empty list otherwise.    *)
(* (A fetch whose result cannot be written to the cache file counts as a     *)
(* failure here.)                                                            *)
C18_DurableCache ==
    [][FetchStep =>
        /\ Fresh =>
              /\ lookups' = <<>>
              /\ ransom_cache.content = <<result'>>
              /\ ransom_cache' = ransom_cache
        /\ ~Fresh =>
              /\ lookups' = <<RansomwatchUrl>>
              /\ (~net'.feed.error /\ net'.write = "ok") =>
                    /\ result' = net'.feed.data
                    /\ ransom_cache' = [exists |-> TRUE, mtime |-> now,
                                        content |-> <<net'.feed.data>>]
              /\ (net'.feed.error \/ net'.write # "ok") =>
                    result' = StaleCache(ransom_cache')
              /\ net'.feed.error => ransom_cache' = ransom_cache
    ]_vars

(* a call of check_dmarc or get_certificate_stats, from the state it finds  *)
(* to the state it leaves                                                   *)
LookupStep ==
    pc = "idle" /\ pc' = "done" /\ op' \in {"check_dmarc", "get_certificate_stats"}

(* the cache entry of the check the call makes *)
EntryOf(o, domain) == (IF o = "check_dmarc" THEN "dmarc_" ELSE "ssl_") \o domain

(* C19: a check_dmarc or get_certificate_stats call for a domain whose last   *)
(* result of that check was stored less than 300 seconds earlier returns the *)
(* stored result without a network lookup; a call 300 seconds or more after  *)
(* the entry was stored removes the entry and makes a fresh lookup, whose    *)
(* result it stores; no call changes any other entry, so the DMARC and the   *)
(* SSL entry of one domain never overwrite each other.                       *)
C19_LookupCache ==
    [][LookupStep =>
        LET k == EntryOf(op', args'.domain)
        IN  /\ (k \in DOMAIN cache /\ now - cache[k].timestamp < 300 * Second) =>
                  /\ result' = cache[k].val
                  /\ lookups' = <<>>
                  /\ cache' = cache
            /\ (k \in DOMAIN cache /\ now - cache[k].timestamp >= 300 * Second) =>
                  /\ lookups' # <<>>
                  /\ cache'[k] = [val |-> result', timestamp |-> now]
                  /\ result' = IF op' = "check_dmarc"
                               THEN ResolveDmarc(args'.domain, net')
                               ELSE CertificateStats(net')
            /\ \A j \in DOMAIN cache \ {k} : j \in DOMAIN cache' /\ cache'[j] = cache[j]
    ]_vars

(* a DMARC result stored at 0 is returned one tick before 300 seconds have   *)
(* passed, although the resolver would now answer otherwise, and the SSL     *)
(* entry of the same domain is there as well                                 *)
C19_Witness ==
    /\ Returned("check_dmarc")
    /\ now = 300 * Second - 1
    /\ lookups = <<>>
    /\ ("dmarc_" \o args.domain) \in DOMAIN cache
    /\ ("ssl_" \o args.domain) \in DOMAIN cache
    /\ cache["dmarc_" \o args.domain].timestamp = 0
    /\ result = cache["dmarc_" \o args.domain].val
    /\ result.has_dmarc = FALSE
    /\ ~net.error /\ net.records[1].dmarc1

(***************************************************************************)
(* Properties of the calculate-assessment endpoint, continued.             *)
(***************************************************************************)
(* the score map the assessment type requires *)
RequiredMap(req) ==
    IF req.assessment_type = "standard" THEN req.answers ELSE req.cloudScores

(* C15: calculate-assessment answers 400 if and only if assessment_type is   *)
(* neither 'standard' nor 'cloud' or the map that type requires is missing; a *)
(* supplied map, an empty one included, yields the Risk output, for empty    *)
(* answers vulnerability 100, impact 3 and likelihood 3.                     *)
C15_BadRequestIff ==
    Returned("calculate_assessment") =>
        /\ result.status_code = 400 <=>
              \/ args.assessment_type \notin {"standard", "cloud"}
              \/ RequiredMap(args) = <<>>
        /\ (/\ args.assessment_type = "standard"
            /\ args.answers = <<<<>>>>
            /\ ~IsRansomware(args.osintResults)) =>
              /\ result.status_code = 200
              /\ result.body.vulnerability = 100
              /\ FloatEq(result.body.impact, Exact(3))
              /\ FloatEq(result.body.likelihood, Exact(3))

(* C20: in a cloud calculate-assessment response with missedCritical false   *)
(* the status tier and the impact agree: REJECT (Critical Risk) iff impact   *)
(* 5, Restricted (Deficient) iff 4, Standard Approval iff 3, Elite           *)
(* (Pre-approved) iff 2, also when total_score is no integer.                *)
C20_StatusImpactAgree ==
    (Returned("calculate_assessment") /\ args.assessment_type = "cloud"
        /\ result.status_code = 200 /\ ~result.body.missedCritical) =>
        LET b == result.body
        IN  /\ b.status = "REJECT (Critical Risk)" <=> b.impact = 5
            /\ b.status = "Restricted (Deficient)" <=> b.impact = 4
            /\ b.status = "Standard Approval" <=> b.impact = 3
            /\ b.status = "Elite (Pre-approved)" <=> b.impact = 2


(***************************************************************************)
(* Properties of the API over the storage.                                 *)
(***************************************************************************)
(* a step in which scan_osint scanned stored vendor `id` and answered 200 *)
ScanStep(id) ==
    /\ pc = "idle"
    /\ op' = "scan_osint"
    /\ args'.vendor_id = id
    /\ result'.status_code = 200

(* C16: after scan_osint completes for an existing vendor, the stored       *)
(* osint_warnings equal the scan's warnings and the stored vulnerability is *)
(* at least the previously stored vulnerability, at least 80 when the       *)
(* scan's ssl is 'F' or 'Expired' and at least 60 when its dmarc is False.  *)
C16_ScanFloors ==
    [][\A id \in VendorIds :
        ScanStep(id) =>
            LET before == database.vendors[id]
                after == database'.vendors[id]
                results == result'.body.results
            IN  /\ after.osint_warnings = results.warnings
                /\ after.vulnerability >= before.vulnerability
                /\ results.osintResults.ssl \in {"F", "Expired"} =>
                       after.vulnerability >= 80
                /\ results.osintResults.dmarc = "False" => after.vulnerability >= 60]_vars

StorageEndpoints ==
    {"get_vendors", "create_vendor", "update_vendor", "delete_vendor",
     "get_questions", "save_question", "delete_question",
     "get_cloud_criteria", "save_cloud_criterion", "delete_cloud_criterion",
     "get_settings", "save_settings", "scan_osint"}

(* a request made while the database is locked is refused with 403 and      *)
(* executes no statement, sends no lookup and leaves the storage as it was  *)
RefusedWhileLocked ==
    (pc = "idle" /\ database.is_locked /\ op' \in StorageEndpoints) =>
        /\ result'.status_code = 403
        /\ lookups' = <<>>
        /\ database' = database
        /\ UNCHANGED <<cache, ransom_cache, now>>

(* a step that is not a login answered 200 *)
NoSuccessfulUnlock == ~(op' = "login" /\ result'.status_code = 200)

NoKnockout(osint_results) ==
    /\ osint_results.ransomware # "True"
    /\ osint_results.ssl \notin {"F", "Expired"}

(* C21: a scan_osint run whose scan result has neither ransomware = True nor *)
(* ssl in {'F', 'Expired'} leaves the vendor's stored vulnerability          *)
(* unchanged, whatever value in 0..100 was stored before.                    *)
C21_VulnerabilityKept ==
    [][\A id \in VendorIds :
        (ScanStep(id) /\ NoKnockout(result'.body.results.osintResults)) =>
            database'.vendors[id].vulnerability = database.vendors[id].vulnerability]_vars


(* the score-relevant signals of an osintResults *)
Signals(osint_results) ==
    [ransomware |-> osint_results.ransomware = "True",
     ssl |-> osint_results.ssl \in {"F", "Expired"},
     dmarc |-> osint_results.dmarc = "False"]

(* the signals of what get_vendors rebuilds; none when it rebuilds None *)
RebuiltSignals(warnings) ==
    IF ExtractResults(warnings) = <<>>
    THEN [ransomware |-> FALSE, ssl |-> FALSE, dmarc |-> FALSE]
    ELSE Signals(ExtractResults(warnings)[1])

(* C22: when scan_osint persists the warnings of a scan_vendor result, the   *)
(* osintResults that get_vendors rebuilds from the stored warnings agree     *)
(* with the scan's osintResults on ransomware being True, on ssl being 'F'   *)
(* or 'Expired' and on dmarc being False, a rebuilt None counting as no      *)
(* signal.                                                                  *)
C22_SignalsRoundTrip ==
    [][\A id \in VendorIds :
        ScanStep(id) =>
            RebuiltSignals(database'.vendors[id].osint_warnings)
                = Signals(result'.body.results.osintResults)]_vars


(* the lock flag, the connection and the stored password hash *)
LockState(d) == <<d.is_locked, d.db, d.key>>

(* unlock_db does not accept `password`: it is empty, does not match the     *)
(* stored hash, or is a first password shorter than 8 characters            *)
Rejected(password, d) ==
    \/ password = ""
    \/ d.key # None /\ password # d.key
    \/ d.key = None /\ Len(password) < 8

LoginStep == pc = "idle" /\ op' = "login"

====
